---- MODULE Spec2Model ----
(***************************************************************************)
(* Model of rbf/_rbf_ufuncs/wrapped_code_4.c: the sympy-generated kernel   *)
(*                                                                         *)
(*   double autofunc0(double x0, double x1, double c0, double c1,          *)
(*                    double eps)                                          *)
(*                                                                         *)
(* A double is modelled as NaN, +-Inf, +-0 or a finite non-zero value      *)
(*   s * c * sqrt(q) * 2^(h/2)     (s = +-1, c odd, q odd and squarefree)  *)
(* so that the squares, the sum of squares, sqrt and the power 7/2 of the  *)
(* inputs are all represented without loss.  The exponent range of the     *)
(* double format is kept: a value at or above 2^DblMaxExp becomes Inf, a   *)
(* value below the smallest subnormal becomes 0, Inf * 0 is NaN.  An       *)
(* operation whose result would need its significand rounded has no case   *)
(* in the model (TLC stops if one is ever evaluated), so every value the   *)
(* model computes is the value IEEE-754 arithmetic with a correctly        *)
(* rounded pow and sqrt computes (an irrational value standing for its     *)
(* rounding).                                                              *)
(***************************************************************************)
EXTENDS Integers, FiniteSets

VARIABLES args, pc, autofunc0_result, taken, steps, ret

vars == <<args, pc, autofunc0_result, taken, steps, ret>>

(***************************************************************************)
(* Parameters of the double format (binary64).                             *)
(***************************************************************************)
DblMaxExp == 1024
DblMinNormExp == 1022
DblDenormExp == 1074
DblMantBits == 53

(***************************************************************************)
(* Bounds of the model: the inputs that are enumerated.                    *)
(***************************************************************************)
MaxX == 4
MaxC == 1
LowExp == 100
MidExp == 200
BigExp == 600
NProc == 2

(***************************************************************************)
(* Values.                                                                 *)
(***************************************************************************)
NaN == [k |-> "nan", s |-> 1, c |-> 0, q |-> 1, h |-> 0]
Inf(sg) == [k |-> "inf", s |-> sg, c |-> 0, q |-> 1, h |-> 0]
Zero(sg) == [k |-> "zero", s |-> sg, c |-> 0, q |-> 1, h |-> 0]
Fin(sg, co, ra, he) == [k |-> "fin", s |-> sg, c |-> co, q |-> ra, h |-> he]
Uninit == [k |-> "uninit", s |-> 1, c |-> 0, q |-> 1, h |-> 0]

IsNaN(a) == a.k = "nan"
IsFinite(a) == a.k \in {"zero", "fin"}

Abs(n) == IF n < 0 THEN -n ELSE n
Sgn(n) == IF n < 0 THEN -1 ELSE 1

RECURSIVE Log2Floor(_)
Log2Floor(n) == IF n < 2 THEN 0 ELSE 1 + Log2Floor(n \div 2)

RECURSIVE TwoExp(_)
TwoExp(n) == IF n % 2 = 1 THEN 0 ELSE 1 + TwoExp(n \div 2)

RECURSIVE Pow2Int(_)
Pow2Int(n) == IF n = 0 THEN 1 ELSE 2 * Pow2Int(n - 1)

RECURSIVE IntPow(_, _)
IntPow(b, n) == IF n = 0 THEN 1 ELSE b * IntPow(b, n - 1)

OddPart(n) == n \div Pow2Int(TwoExp(n))

\* the largest a with a*a dividing n, and the squarefree rest
SquarePart(n) ==
  LET S == {a \in 1..Pow2Int(Log2Floor(n) \div 2 + 1) : n % (a * a) = 0}
  IN CHOOSE a \in S : \A b \in S : b <= a
SquareFree(n) == n \div (SquarePart(n) * SquarePart(n))

IsDyadic(a) == a.k = "fin" /\ a.q = 1 /\ a.h % 2 = 0

\* position of the leading bit of a dyadic value: 2^Top <= |a| < 2^(Top+1)
Top(a) == Log2Floor(a.c) + (a.h \div 2)

\* twice the binary logarithm of |a| lies in [Lo2(a), Lo2(a) + 3)
Lo2(a) == 2 * Log2Floor(a.c) + Log2Floor(a.q) + a.h

\* the integer m (non-zero) times 2^e, exactly
Dy(m, e) ==
  IF m = 0 THEN Zero(1)
  ELSE Fin(Sgn(m), OddPart(Abs(m)), 1, 2 * (e + TwoExp(Abs(m))))

(***************************************************************************)
(* Range of the format: what an exact result becomes when it is stored in  *)
(* a double.  Rounding of the significand is not needed by any value the   *)
(* model computes; a value that would need it matches no case.             *)
(***************************************************************************)
\* the value of an expression, its operands evaluated once
Val(S) == CHOOSE r \in S : TRUE

RoundVal(a) ==
  CASE a.k # "fin" -> a
    [] IsDyadic(a) /\ Top(a) >= DblMaxExp -> Inf(a.s)
    [] IsDyadic(a) /\ Top(a) < DblMaxExp /\ Top(a) >= -DblMinNormExp
         /\ Log2Floor(a.c) < DblMantBits -> a
    [] IsDyadic(a) /\ Top(a) < -DblMinNormExp /\ (a.h \div 2) >= -DblDenormExp -> a
    [] IsDyadic(a) /\ Top(a) < -(DblDenormExp + 1) -> Zero(a.s)
    [] IsDyadic(a) /\ Top(a) = -(DblDenormExp + 1) /\ a.c = 1 -> Zero(a.s)
    [] IsDyadic(a) /\ Top(a) = -(DblDenormExp + 1) /\ a.c > 1 ->
         Fin(a.s, 1, 1, -2 * DblDenormExp)
    [] ~IsDyadic(a) /\ Lo2(a) >= 2 * DblMaxExp -> Inf(a.s)
    [] ~IsDyadic(a) /\ Lo2(a) + 3 < 2 * DblMaxExp /\ Lo2(a) >= -2 * DblMinNormExp -> a
    [] ~IsDyadic(a) /\ Lo2(a) + 3 <= -2 * (DblDenormExp + 1) -> Zero(a.s)

\* the stored value of an exact result
Round(a) == Val({RoundVal(u) : u \in {a}})

(***************************************************************************)
(* Arithmetic of <math.h> and of the C operators on doubles.               *)
(***************************************************************************)
\* unary minus
Neg(a) == IF IsNaN(a) THEN a ELSE [a EXCEPT !.s = -a.s]

\* the sum of two finite non-zero dyadic values, before it is stored: exact
\* when the exponents are close, the larger operand when the smaller one is
\* below half a unit in its last place
AddFin(a, b) ==
  LET ea == a.h \div 2
      eb == b.h \div 2
      e == IF ea < eb THEN ea ELSE eb
      m == a.s * a.c * Pow2Int(ea - e) + b.s * b.c * Pow2Int(eb - e)
  IN CASE Log2Floor(a.c) + (ea - e) < 30 /\ Log2Floor(b.c) + (eb - e) < 30 ->
            Dy(m, e)
       [] Top(a) - Top(b) >= DblMantBits + 2 -> a
       [] Top(b) - Top(a) >= DblMantBits + 2 -> b

AddExact(a, b) ==
  CASE IsNaN(a) \/ IsNaN(b) -> NaN
    [] a.k = "inf" /\ b.k = "inf" -> IF a.s = b.s THEN a ELSE NaN
    [] a.k = "inf" /\ b.k \in {"zero", "fin"} -> a
    [] b.k = "inf" /\ a.k \in {"zero", "fin"} -> b
    [] a.k = "zero" /\ b.k = "zero" -> IF a.s = b.s THEN a ELSE Zero(1)
    [] a.k = "zero" /\ b.k = "fin" -> b
    [] a.k = "fin" /\ b.k = "zero" -> a
    [] IsDyadic(a) /\ IsDyadic(b) -> AddFin(a, b)

\* a + b
Add(a, b) == Val({Round(AddExact(u, v)) : u \in {a}, v \in {b}})

MulExact(a, b) ==
  CASE IsNaN(a) \/ IsNaN(b) -> NaN
    [] a.k = "inf" /\ b.k = "zero" -> NaN
    [] a.k = "zero" /\ b.k = "inf" -> NaN
    [] a.k = "inf" /\ b.k \in {"inf", "fin"} -> Inf(a.s * b.s)
    [] b.k = "inf" /\ a.k = "fin" -> Inf(a.s * b.s)
    [] a.k = "zero" /\ b.k \in {"zero", "fin"} -> Zero(a.s * b.s)
    [] b.k = "zero" /\ a.k = "fin" -> Zero(a.s * b.s)
    [] a.k = "fin" /\ b.k = "fin" /\ (a.q = 1 \/ b.q = 1) ->
         Fin(a.s * b.s, a.c * b.c, a.q * b.q, a.h + b.h)

\* a * b
Mul(a, b) == Val({Round(MulExact(u, v)) : u \in {a}, v \in {b}})

PowIntExact(a, n) ==
  LET sg == IF n % 2 = 1 THEN a.s ELSE 1
  IN CASE IsNaN(a) -> NaN
       [] a.k = "inf" -> Inf(sg)
       [] a.k = "zero" -> Zero(sg)
       [] a.k = "fin" /\ a.q = 1 -> Fin(sg, IntPow(a.c, n), 1, a.h * n)

\* pow(a, n) for an integer n > 0
PowInt(a, n) == Val({Round(PowIntExact(u, n)) : u \in {a}})

PowHalfExact(a, n) ==
  CASE IsNaN(a) -> NaN
    [] a.k = "inf" -> Inf(1)
    [] a.k = "zero" -> Zero(1)
    [] a.k = "fin" /\ a.s = -1 -> NaN
    [] IsDyadic(a) /\ a.s = 1 ->
         Fin(1, IntPow(a.c, (n - 1) \div 2) * SquarePart(a.c),
             SquareFree(a.c), n * (a.h \div 2))

\* pow(a, n/2) for an odd integer n > 0
PowHalf(a, n) == Val({Round(PowHalfExact(u, n)) : u \in {a}})

SqrtExact(a) ==
  CASE IsNaN(a) -> NaN
    [] a.k = "zero" -> a
    [] a.k \in {"inf", "fin"} /\ a.s = -1 -> NaN
    [] a.k = "inf" /\ a.s = 1 -> a
    [] IsDyadic(a) /\ a.s = 1 -> Fin(1, SquarePart(a.c), SquareFree(a.c), a.h \div 2)

\* sqrt(a)
Sqrt(a) == Val({Round(SqrtExact(u)) : u \in {a}})

IsZero(a) == a.k = "zero"
IsNeg(a) == a.k \in {"inf", "fin"} /\ a.s = -1
IsPos(a) == a.k \in {"inf", "fin"} /\ a.s = 1

\* a <= 0.0
LeqZero(a) == IsZero(a) \/ IsNeg(a)

\* a == b of C
Eq(a, b) == /\ ~IsNaN(a)
            /\ ~IsNaN(b)
            /\ (a = b \/ (a.k = "zero" /\ b.k = "zero"))

(***************************************************************************)
(* The expressions of autofunc0.                                           *)
(***************************************************************************)
KernelOrder == 7

\* faulty variant: the second centre coordinate left out of the distance
DistSqNoC1(x0, x1, c0, c1) ==
  Add(PowInt(Add(Neg(c0), x0), 2), PowInt(x1, 2))

\* pow(-c0 + x0, 2) + pow(-c1 + x1, 2)
DistSq(x0, x1, c0, c1) ==
  Add(PowInt(Add(Neg(c0), x0), 2), PowInt(Add(Neg(c1), x1), 2))

\* faulty variant: the test written r < 0.0
GuardStrict(x0, x1, c0, c1) ==
  IsNeg(Sqrt(Add(PowInt(Add(Neg(c0), x0), 2), PowInt(Add(Neg(c1), x1), 2))))

\* faulty variant: the test looking at the first coordinate only
GuardFirstOnly(x0, x1, c0, c1) == LeqZero(Sqrt(PowInt(Add(Neg(c0), x0), 2)))

\* sqrt(pow(-c0 + x0, 2) + pow(-c1 + x1, 2)) <= 0.0
Guard(x0, x1, c0, c1) == LeqZero(Sqrt(DistSq(x0, x1, c0, c1)))

\* faulty variant: the zero branch assigns nothing
ZeroValueUnset == Uninit

\* faulty variant: the zero branch assigns 1
ZeroValueOne == Dy(1, 0)

\* autofunc0_result = 0;
ZeroValue == Zero(1)

\* faulty variant: pow(fabs(eps), 7)
ElseValueAbs(x0, x1, c0, c1, eps) ==
  Mul(PowInt(IF IsNaN(eps) THEN eps ELSE [eps EXCEPT !.s = 1], KernelOrder),
      PowHalf(Add(PowInt(Add(Neg(c0), x0), 2), PowInt(Add(Neg(c1), x1), 2)),
              KernelOrder))

\* faulty variant: pow(eps, 6)
ElseValueEven(x0, x1, c0, c1, eps) ==
  Mul(PowInt(eps, KernelOrder - 1),
      PowHalf(Add(PowInt(Add(Neg(c0), x0), 2), PowInt(Add(Neg(c1), x1), 2)),
              KernelOrder))

\* pow(eps, 7)*pow(pow(-c0 + x0, 2) + pow(-c1 + x1, 2), 7.0/2.0)
ElseValue(x0, x1, c0, c1, eps) ==
  Mul(PowInt(eps, KernelOrder), PowHalf(DistSq(x0, x1, c0, c1), KernelOrder))

\* one whole call
autofunc0(x0, x1, c0, c1, eps) ==
  IF Guard(x0, x1, c0, c1) THEN ZeroValue ELSE ElseValue(x0, x1, c0, c1, eps)


(***************************************************************************)
(* Inputs.  Coordinates are small integers and single powers of two far    *)
(* from 1; eps is 0 or a signed power of two.  All of them are finite.     *)
(***************************************************************************)
CoordX == {Dy(m, 0) : m \in -MaxX..MaxX}
          \cup {Dy(1, e) : e \in {-BigExp, -MidExp, -LowExp, LowExp, MidExp, BigExp}}
CoordC == {Dy(m, 0) : m \in 0..MaxC}
          \cup {Dy(1, e) : e \in {-BigExp, BigExp}}
EpsSet == {Zero(1)}
          \cup {Dy(1, e) : e \in {-MidExp, -LowExp, 0, 1, LowExp, MidExp}}
          \cup {Dy(-1, e) : e \in {0, MidExp}}

Inputs == [x0 : CoordX, x1 : CoordX, c0 : CoordC, c1 : CoordC, eps : EpsSet]

SmallInputs == [x0 : {Dy(0, 0), Dy(1, 0)}, x1 : {Dy(0, 0)}, c0 : {Dy(0, 0)},
                c1 : {Dy(0, 0)}, eps : {Dy(1, 0), Dy(1, 1), Dy(-1, 0)}]

(***************************************************************************)
(* The call as a state machine.  Every invocation p has its own arguments  *)
(* and its own automatic variable autofunc0_result (Slot); nothing else is *)
(* read or written.  taken[p] records the branches p has executed and      *)
(* steps[p] the number of steps it has taken.                              *)
(***************************************************************************)
Procs == DOMAIN pc

\* faulty variant: "static double autofunc0_result;", one for all invocations
SlotShared(p) == 1

\* storage of "double autofunc0_result;": automatic, one per invocation
Slot(p) == p

Call(a) == autofunc0(a.x0, a.x1, a.c0, a.c1, a.eps)

InitOn(P, In) ==
  /\ args \in [P -> In]
  /\ pc = [p \in P |-> "test"]
  /\ autofunc0_result = [p \in P |-> Uninit]
  /\ taken = [p \in P |-> {}]
  /\ steps = [p \in P |-> 0]
  /\ ret = [p \in P |-> Uninit]

Init == InitOn({1}, Inputs)

InitConc == InitOn(1..NProc, SmallInputs)

\* if (sqrt(pow(-c0 + x0, 2) + pow(-c1 + x1, 2)) <= 0.0)
Test(p) ==
  /\ pc[p] = "test"
  /\ pc' = [pc EXCEPT ![p] =
              IF Guard(args[p].x0, args[p].x1, args[p].c0, args[p].c1)
              THEN "then" ELSE "else"]
  /\ steps' = [steps EXCEPT ![p] = @ + 1]
  /\ UNCHANGED <<args, autofunc0_result, taken, ret>>

\* autofunc0_result = 0;
AssignZero(p) ==
  /\ pc[p] = "then"
  /\ autofunc0_result' = [autofunc0_result EXCEPT ![Slot(p)] = ZeroValue]
  /\ taken' = [taken EXCEPT ![p] = @ \cup {"then"}]
  /\ pc' = [pc EXCEPT ![p] = "return"]
  /\ steps' = [steps EXCEPT ![p] = @ + 1]
  /\ UNCHANGED <<args, ret>>

\* autofunc0_result = pow(eps, 7)*pow(..., 7.0/2.0);
AssignElse(p) ==
  /\ pc[p] = "else"
  /\ autofunc0_result' = [autofunc0_result EXCEPT ![Slot(p)] =
        ElseValue(args[p].x0, args[p].x1, args[p].c0, args[p].c1, args[p].eps)]
  /\ taken' = [taken EXCEPT ![p] = @ \cup {"else"}]
  /\ pc' = [pc EXCEPT ![p] = "return"]
  /\ steps' = [steps EXCEPT ![p] = @ + 1]
  /\ UNCHANGED <<args, ret>>

\* return autofunc0_result;  (an uninitialised read yields any value)
Return(p) ==
  /\ pc[p] = "return"
  /\ \E v \in IF autofunc0_result[Slot(p)] = Uninit
              THEN {NaN, Zero(1), Dy(1, 0)}
              ELSE {autofunc0_result[Slot(p)]} :
        ret' = [ret EXCEPT ![p] = v]
  /\ pc' = [pc EXCEPT ![p] = "done"]
  /\ steps' = [steps EXCEPT ![p] = @ + 1]
  /\ UNCHANGED <<args, autofunc0_result, taken>>

Next ==
  \/ \E p \in Procs : Test(p)
  \/ \E p \in Procs : AssignZero(p)
  \/ \E p \in Procs : AssignElse(p)
  \/ \E p \in Procs : Return(p)

Spec == Init /\ [][Next]_vars

SpecConc == InitConc /\ [][Next]_vars


(***************************************************************************)
(* Vocabulary of the properties.                                           *)
(***************************************************************************)
\* a >= 0 of C
GeqZero(a) == IsZero(a) \/ IsPos(a)
\* neither overflowed nor underflowed
InRange(a) == a.k = "fin"
\* the same double, the two zeros taken as equal and NaN as itself
SameValue(a, b) == (IsNaN(a) /\ IsNaN(b)) \/ Eq(a, b)

Done(p) == pc[p] = "done"
Coincide(a) == a.x0 = a.c0 /\ a.x1 = a.c1
\* the computed distance r, pow(eps, 7) and the 7/2 power of the squared distance
R(a) == Sqrt(DistSq(a.x0, a.x1, a.c0, a.c1))
EpsPow(a) == PowInt(a.eps, 7)
DistPow(a) == PowHalf(DistSq(a.x0, a.x1, a.c0, a.c1), 7)
Unguarded(a) == ElseValue(a.x0, a.x1, a.c0, a.c1, a.eps)
Swapped(a) == [x0 |-> a.c0, x1 |-> a.c1, c0 |-> a.x0, c1 |-> a.x1, eps |-> a.eps]
Scaled(a, k) == [a EXCEPT !.eps = Mul(k, a.eps)]

\* eps^7 * ((x0-c0)^2 + (x1-c1)^2)^(7/2) as a real number, stored in a double
\* once, at the end: no intermediate result is confined to the double range
Ideal(a) ==
  Round(MulExact(PowIntExact(a.eps, 7),
                 PowHalfExact(AddExact(PowIntExact(Add(Neg(a.c0), a.x0), 2),
                                       PowIntExact(Add(Neg(a.c1), a.x1), 2)), 7)))

\* the scale factors k of the scaling property
KSet == {Zero(1), Dy(-1, 0), Dy(1, 1), Dy(1, -1), Dy(1, -MidExp), Dy(1, MidExp)}

(***************************************************************************)
(* C1                                                                      *)
(***************************************************************************)
\* C1: whenever the distance r is greater than 0 the call returns
\* eps^7 * ((x0-c0)^2 + (x1-c1)^2)^(7/2); in particular it returns 10000000
\* for (3, 4, 0, 0, 2) and 1 for (1, 0, 0, 0, 1).
C1_KernelValue ==
  \A p \in Procs :
    Done(p) /\ IsPos(R(args[p])) =>
      /\ ret[p] = Ideal(args[p])
      /\ args[p] = [x0 |-> Dy(3, 0), x1 |-> Dy(4, 0), c0 |-> Dy(0, 0),
                    c1 |-> Dy(0, 0), eps |-> Dy(2, 0)]
           => ret[p] = Dy(10000000, 0)
      /\ args[p] = [x0 |-> Dy(1, 0), x1 |-> Dy(0, 0), c0 |-> Dy(0, 0),
                    c1 |-> Dy(0, 0), eps |-> Dy(1, 0)]
           => ret[p] = Dy(1, 0)

(***************************************************************************)
(* C2                                                                      *)
(***************************************************************************)
\* C2: evaluated at the centre itself (x0 = c0, x1 = c1) the call returns 0,
\* whatever the value or sign of eps.
C2_ZeroDistance ==
  \A p \in Procs : Done(p) /\ Coincide(args[p]) => Eq(ret[p], Zero(1))

C2_Witness ==
  \E p \in Procs : /\ Done(p)
                   /\ Coincide(args[p])
                   /\ args[p].x0 = Dy(1, BigExp)
                   /\ args[p].eps = Dy(-1, MidExp)

(***************************************************************************)
(* C3                                                                      *)
(***************************************************************************)
\* C3 as stated: the result is >= 0 for every eps, negative eps included.
C3_AlwaysNonNegative == \A p \in Procs : Done(p) => GeqZero(ret[p])

\* C3 as amended: the result has the sign of eps: it is never negative when
\* eps >= 0 and never positive when eps <= 0.
C3_SignOfEps ==
  \A p \in Procs :
    Done(p) => /\ GeqZero(args[p].eps) => ~IsNeg(ret[p])
               /\ ~IsPos(args[p].eps) => ~IsPos(ret[p])

C3_Witness ==
  \E p \in Procs : Done(p) /\ IsNeg(args[p].eps) /\ IsNeg(ret[p]) /\ InRange(ret[p])

(***************************************************************************)
(* C4                                                                      *)
(***************************************************************************)
\* C4: for every eps >= 0 the result is >= 0.
C4_NonNegativeForNonNegativeEps ==
  \A p \in Procs : Done(p) /\ GeqZero(args[p].eps) => GeqZero(ret[p])

(***************************************************************************)
(* C5                                                                      *)
(***************************************************************************)
\* C5 as stated: for r > 0 and every k, the call with k*eps returns k^7 times
\* the call with eps.
C5_Scaling ==
  \A p \in Procs :
    Done(p) /\ IsPos(R(args[p])) =>
      \A k \in KSet :
        Eq(Call(Scaled(args[p], k)), Mul(PowInt(k, 7), ret[p]))

\* no step of either side of the scaling identity overflows or underflows
ScalingInRange(a, k) ==
  /\ InRange(k)
  /\ InRange(Mul(k, a.eps))
  /\ InRange(PowInt(k, 7))
  /\ InRange(EpsPow(a))
  /\ InRange(EpsPow(Scaled(a, k)))
  /\ InRange(DistPow(a))
  /\ InRange(Call(a))
  /\ InRange(Call(Scaled(a, k)))

\* C5 as amended: for r > 0 the identity holds for k a signed power of two when
\* no step overflows or underflows, and for k = 0 when the 7/2 power of the
\* squared distance and the result for eps are finite.
C5_ScalingInRange ==
  \A p \in Procs :
    Done(p) /\ IsPos(R(args[p])) =>
      \A k \in KSet :
        \/ InRange(ret[p]) /\ ScalingInRange(args[p], k)
        \/ IsZero(k) /\ IsFinite(ret[p]) /\ IsFinite(DistPow(args[p]))
        => Eq(Call(Scaled(args[p], k)), Mul(PowInt(k, 7), ret[p]))

C5_Witness ==
  \E p \in Procs :
    /\ Done(p)
    /\ IsPos(R(args[p]))
    /\ ret[p].q # 1
    /\ ScalingInRange(args[p], Dy(-1, 0))
    /\ ScalingInRange(args[p], Dy(1, 1))
    /\ Call(Scaled(args[p], Dy(1, 1))) # ret[p]

(***************************************************************************)
(* C6                                                                      *)
(***************************************************************************)
\* C6: swapping the evaluation point and the centre does not change the result.
C6_Symmetry ==
  \A p \in Procs : Done(p) => ret[p] = Call(Swapped(args[p]))

C6_Witness ==
  \E p \in Procs : /\ Done(p)
                   /\ args[p].x0 # args[p].c0
                   /\ args[p].x1 # args[p].c1
                   /\ InRange(ret[p])

(***************************************************************************)
(* C7                                                                      *)
(***************************************************************************)
\* the number of steps a call at label l still has to take
RankOf(l) == CASE l = "test" -> 3
               [] l \in {"then", "else"} -> 2
               [] l = "return" -> 1
               [] l = "done" -> 0

\* C7: for every finite input the call can always take its next step until it
\* has returned, it returns after exactly three steps (test, assignment,
\* return), exactly one of the two branches assigns the result, and the value
\* returned is the one assigned: no input stops it, signals an error or
\* leaves the result unset.
C7_Total ==
  \A p \in Procs :
    /\ ~Done(p) => ENABLED (Test(p) \/ AssignZero(p) \/ AssignElse(p) \/ Return(p))
    /\ steps[p] + RankOf(pc[p]) = RankOf("test")
    /\ pc[p] \in {"test", "then", "else"} => taken[p] = {}
    /\ pc[p] \in {"return", "done"} =>
         /\ autofunc0_result[Slot(p)] # Uninit
         /\ Cardinality(taken[p]) = 1
    /\ Done(p) => /\ ret[p] = autofunc0_result[Slot(p)]
                  /\ ret[p].k \in {"nan", "inf", "zero", "fin"}

C7_Witness ==
  \E p \in Procs : /\ Done(p)
                   /\ taken[p] = {"then"}
                   /\ ~Coincide(args[p])
                   /\ IsNeg(args[p].eps)

(***************************************************************************)
(* C8                                                                      *)
(***************************************************************************)
\* C8: with the steps of several invocations interleaved in any order, each
\* invocation returns the value the call returns when run alone on its inputs.
C8_Isolation ==
  \A p \in Procs : Done(p) => ret[p] = Call(args[p])

C8_Witness ==
  \E p, o \in Procs :
    /\ p # o
    /\ pc[p] = "return"
    /\ pc[o] = "return"
    /\ taken[p] # taken[o]
    /\ autofunc0_result[Slot(p)] # autofunc0_result[Slot(o)]

(***************************************************************************)
(* C9                                                                      *)
(***************************************************************************)
\* C9 as stated: for every input the call returns the value of the unguarded
\* expression pow(eps, 7)*pow(..., 7.0/2.0).
C9_GuardNoOp ==
  \A p \in Procs : Done(p) => SameValue(ret[p], Unguarded(args[p]))

\* C9 as amended: the call returns the value of the unguarded expression
\* whenever pow(eps, 7) is finite.
C9_GuardNoOpFiniteEpsPow ==
  \A p \in Procs :
    Done(p) /\ IsFinite(EpsPow(args[p])) => SameValue(ret[p], Unguarded(args[p]))

C9_Witness ==
  \E p \in Procs : /\ Done(p)
                   /\ taken[p] = {"then"}
                   /\ InRange(EpsPow(args[p]))
                   /\ IsNeg(args[p].eps)

(***************************************************************************)
(* C10                                                                     *)
(***************************************************************************)
\* C10 as stated: the zero branch is taken exactly when x0 = c0 and x1 = c1;
\* for distinct points the else branch is taken and, when eps # 0, the result
\* is non-zero.
C10_ZeroBranchIffCoincide ==
  \A p \in Procs :
    pc[p] \in {"return", "done"} =>
      /\ "then" \in taken[p] <=> Coincide(args[p])
      /\ Done(p) /\ ~Coincide(args[p]) /\ ~IsZero(args[p].eps) =>
           "else" \in taken[p] /\ ~Eq(ret[p], Zero(1))

\* C10 as amended: coincident points take the zero branch; the zero branch is
\* taken exactly when both squared differences are 0 as doubles; in the else
\* branch with eps # 0 the result is zero only if pow(eps, 7), the 7/2 power
\* of the squared distance, or their product underflows to zero.
C10_ZeroBranchIffSquaresZero ==
  \A p \in Procs :
    pc[p] \in {"return", "done"} =>
      /\ Coincide(args[p]) => "then" \in taken[p]
      /\ "then" \in taken[p] <=>
           /\ IsZero(PowInt(Add(Neg(args[p].c0), args[p].x0), 2))
           /\ IsZero(PowInt(Add(Neg(args[p].c1), args[p].x1), 2))
      /\ /\ Done(p)
         /\ "else" \in taken[p]
         /\ ~IsZero(args[p].eps)
         /\ Eq(ret[p], Zero(1))
         => \/ IsZero(EpsPow(args[p]))
            \/ IsZero(DistPow(args[p]))
            \/ InRange(MulExact(EpsPow(args[p]), DistPow(args[p])))

C10_Witness ==
  \E p \in Procs : /\ Done(p)
                   /\ taken[p] = {"then"}
                   /\ ~Coincide(args[p])
                   /\ args[p].x0 = Dy(1, -BigExp)
                   /\ args[p].c0 = Dy(0, 0)


====
